---- MODULE Spec2Model ----
(***************************************************************************)
(* Model of the telegram-bot-fsm engine (package fsm): the latest revision *)
(* of BotFsm (HandleUpdate, GoTo, removeKeyboard, getStateMessageConfigs,  *)
(* extractCommand) together with the default in-memory persistence.        *)
(*                                                                         *)
(* One call of HandleUpdate or GoTo is one action.  The action records the *)
(* calls it makes on its collaborators (persistence, handlers, transport), *)
(* in order, in the variable calls; Return models the caller's loop taking *)
(* the next update.                                                        *)
(*                                                                         *)
(* Spec starts on the empty default store; SpecPersisted starts on a given *)
(* storage; SpecMarkers is the engine of the revision whose handlers may   *)
(* declare RemoveKeyboardBefore; SpecLenient is the earlier revision whose *)
(* keyboard removal does not end the call; SpecNew is the construction by  *)
(* NewBotFsm; SpecStore is the default persistence used on its own;        *)
(* SpecLocks is the store's operations step by step under its lock, and    *)
(* SpecConcurrent is HandleUpdate called by several goroutines at once.    *)
(***************************************************************************)
EXTENDS Integers, Sequences, FiniteSets, TLC

\* ------------------------------------------------------------------ bounds
NumChats == 1
MaxData == 1
MaxTextLen == 2
MaxSaves == 3
NumGoroutines == 2
MaxOps == 2

\* --------------------------------------------------------------- constants
UndefinedState == "undefined"
DefaultTempText == "Thinking..."

ChatIds == 1..NumChats
Data == 0..MaxData
ZeroData == 0

\* Characters of an update text: the command marker, the space, a letter.
Chars == {"/", " ", "s"}
Texts == UNION {[1..n -> Chars] : n \in 0..MaxTextLen}

\* ------------------------------------------------------ the configuration
\* The registry handed to NewBotFsm: three states, of which "menu" declares
\* RemoveKeyboardAfter.  "ghost" is a state name no handler is registered for.
configs == {UndefinedState, "menu", "form"}
StateNames == configs \cup {"ghost"}
RemoveKeyboardAfter(state) == state = "menu"

\* The revisions of the engine: the one whose handlers may implement
\* RemoveKeyboardManager, and the later one whose handlers may implement
\* RemoveKeyboardAfterMarker and RemoveKeyboardBeforeMarker.  In the later
\* one, named "RemoveKeyboardMarkers" here, "form" declares
\* RemoveKeyboardBefore.
RemoveKeyboardBefore(state) == state = "form"

\* The command table: "/s" is registered, every other keyword is not.
commands == {<<"s">>}

\* ---------------------------------------------------------------- messages
MessageConfigOf(text, extra, mode, markup, rk) ==
    [Text |-> text, ExtraTexts |-> extra, ParseMode |-> mode,
     ReplyMarkup |-> markup, RemoveKeyboard |-> rk]

\* What a handler may put into a Transition.
MessageConfigs ==
    { MessageConfigOf("", <<>>, "", "nil", FALSE),
      MessageConfigOf("", <<"x1">>, "HTML", "kb", TRUE),
      MessageConfigOf("t", <<>>, "", "nil", FALSE),
      MessageConfigOf("t", <<>>, "", "nil", TRUE),
      MessageConfigOf("t", <<"x1", "x2">>, "HTML", "kb", FALSE) }

Transitions == [State : StateNames \cup {""}, MessageConfig : MessageConfigs]

EmptyInEveryField(m) ==
    m.Text = "" /\ m.ExtraTexts = <<>> /\ ~m.RemoveKeyboard

Empty(m) == m.Text = ""

\* The MessageFn of the registered states: the text names the state and the
\* payload it was called with; the "form" message asks for keyboard removal.
MessageFn(state, data) ==
    MessageConfigOf("msg:" \o state \o ":" \o ToString(data),
                    IF state = "form" THEN <<"more">> ELSE <<>>,
                    IF state = "form" THEN "HTML" ELSE "",
                    IF state = "menu" THEN "kb" ELSE "nil",
                    state = "form")

undefinedCommandMessageFn(data) ==
    MessageConfigOf("unknown:" \o ToString(data), <<>>, "", "nil", FALSE)

\* ----------------------------------------------------------------- updates
MessageUpdates ==
    {[hasMessage |-> TRUE, msgChat |-> c, text |-> t,
      hasCallback |-> FALSE, cbChat |-> 0] : c \in 0..NumChats, t \in Texts}
CallbackUpdates ==
    {[hasMessage |-> FALSE, msgChat |-> 0, text |-> <<>>,
      hasCallback |-> TRUE, cbChat |-> c] : c \in 0..NumChats}
OtherUpdates ==
    {[hasMessage |-> FALSE, msgChat |-> 0, text |-> <<>>,
      hasCallback |-> FALSE, cbChat |-> 0]}
Updates == MessageUpdates \cup CallbackUpdates \cup OtherUpdates

NoArgs == [kind |-> "none"]

\* The options of NewBotFsm: the unknown-command provider is given or not;
\* the placeholder text is the default or the one WithRemoveKeyboardTempText
\* sets.
TempTexts == {DefaultTempText, "One moment"}
Options == [undefinedCommandMessageFn : BOOLEAN, removeKeyboardTempText : TempTexts]

\* The sync.RWMutex of the in-memory store: the goroutines holding it for
\* reading, and the goroutine holding it for writing (0 for none).
Unlocked == [readers |-> {}, writer |-> 0]

\* goroutines: the position and the locals of every goroutine that calls
\* the engine or the store concurrently; empty when the caller's loop makes
\* one call at a time.
NoGoroutines == <<>>

VARIABLES store, opts, pc, args, calls, err, before, revision, mx, goroutines
vars == <<store, opts, pc, args, calls, err, before, revision, mx, goroutines>>

\* ------------------------------------------------ strings (package strings)
HasPrefix(s, prefix) ==
    /\ Len(s) >= Len(prefix)
    /\ SubSeq(s, 1, Len(prefix)) = prefix

TrimPrefix(s, prefix) ==
    IF HasPrefix(s, prefix) THEN SubSeq(s, Len(prefix) + 1, Len(s)) ELSE s

\* strings.Split(s, sep) for a one-character separator: the pieces between
\* the occurrences of sep, so one piece more than there are occurrences.
RECURSIVE SplitFrom(_, _, _)
SplitFrom(s, sep, piece) ==
    IF s = <<>> THEN <<piece>>
    ELSE IF Head(s) = sep THEN <<piece>> \o SplitFrom(Tail(s), sep, <<>>)
    ELSE SplitFrom(Tail(s), sep, Append(piece, Head(s)))

Split(s, sep) == SplitFrom(s, sep, <<>>)

\* ------------------------------------------------------ update inspection
getChatId(update) ==
    LET fromMessage == IF update.hasMessage THEN update.msgChat ELSE 0
    IN  IF fromMessage = 0 /\ update.hasCallback THEN update.cbChat
        ELSE fromMessage

\* strings.TrimLeft(s, "/"): every leading marker is cut, not only the first.
RECURSIVE TrimLeft(_, _)
TrimLeft(s, c) ==
    IF s # <<>> /\ Head(s) = c THEN TrimLeft(Tail(s), c) ELSE s

extractCommandTrimLeft(update) ==
    IF /\ update.hasMessage
       /\ HasPrefix(update.text, <<"/">>)
       /\ Len(Split(update.text, " ")) = 1
    THEN TrimLeft(update.text, "/")
    ELSE <<>>

extractCommandNoSplit(update) ==
    IF update.hasMessage /\ HasPrefix(update.text, <<"/">>)
    THEN TrimPrefix(update.text, <<"/">>)
    ELSE <<>>

extractCommandKeepMarker(update) ==
    IF /\ update.hasMessage
       /\ HasPrefix(update.text, <<"/">>)
       /\ Len(Split(update.text, " ")) = 1
    THEN update.text
    ELSE <<>>

extractCommand(update) ==
    IF /\ update.hasMessage
       /\ HasPrefix(update.text, <<"/">>)
       /\ Len(Split(update.text, " ")) = 1
    THEN TrimPrefix(update.text, <<"/">>)
    ELSE <<>>

\* --------------------------------------- default in-memory persistence
ChatState(chatId, name, data) == [chatId |-> chatId, name |-> name, data |-> data]

putKeepsFirst(m, key, state) ==
    [k \in DOMAIN m \cup {key} |-> IF k \in DOMAIN m THEN m[k] ELSE state]

putKeepsLargerPayload(m, key, state) ==
    [k \in DOMAIN m \cup {key} |->
        IF k = key /\ (k \notin DOMAIN m \/ m[k].data <= state.data)
        THEN state ELSE m[k]]

put(m, key, state) ==
    [k \in DOMAIN m \cup {key} |-> IF k = key THEN state ELSE m[k]]

delete(m, key) == [k \in DOMAIN m \ {key} |-> m[k]]

get(m, key) ==
    IF key \in DOMAIN m THEN [val |-> m[key], ok |-> TRUE]
    ELSE [val |-> ChatState(0, "", ZeroData), ok |-> FALSE]

LoadStateFnZeroData(m, chatId) ==
    LET r == get(m, chatId)
    IN  IF r.ok THEN [name |-> r.val.name, data |-> ZeroData]
        ELSE [name |-> "", data |-> ZeroData]

LoadStateFn(m, chatId) ==
    LET r == get(m, chatId)
    IN  IF r.ok THEN [name |-> r.val.name, data |-> r.val.data]
        ELSE [name |-> "", data |-> ZeroData]

SaveStateFn(m, chatId, name, data) == put(m, chatId, ChatState(chatId, name, data))

\* ------------------------------------------- calls made on collaborators
LoadCall(chatId, name, data, failed) ==
    [op |-> "load", chat |-> chatId, name |-> name, data |-> data, failed |-> failed]
SaveCall(chatId, name, data, failed) ==
    [op |-> "save", chat |-> chatId, name |-> name, data |-> data, failed |-> failed]
StateTransitionCall(state, data, transition, newData) ==
    [op |-> "StateTransitionFn", state |-> state, data |-> data,
     transition |-> transition, newData |-> newData]
CommandTransitionCall(command, data, transition, newData) ==
    [op |-> "CommandTransitionFn", command |-> command, data |-> data,
     transition |-> transition, newData |-> newData]
MessageFnCall(state, data) ==
    [op |-> "MessageFn", state |-> state, data |-> data]
UnknownCommandCall(data) ==
    [op |-> "undefinedCommandMessageFn", data |-> data]
SendCall(msg, failed) ==
    [op |-> "send", msg |-> msg, failed |-> failed]
DeleteCall(chatId, messageId, failed) ==
    [op |-> "delete", chat |-> chatId, messageId |-> messageId, failed |-> failed]

\* tgbotapi.NewMessage with the fields the engine sets afterwards.
NewMessage(chatId, text, mode, markup) ==
    [chat |-> chatId, text |-> text, ParseMode |-> mode, ReplyMarkup |-> markup]

\* The ids the transport may give to the placeholder message.
MessageIds == {41, 42}

\* ------------------------------------------------- the engine's helpers
\* getStateMessageConfigs: the primary message, then one message per extra
\* text, each with the primary message's ParseMode and ReplyMarkup.
getStateMessageConfigsPlainExtras(chatId, messageConfig) ==
    <<NewMessage(chatId, messageConfig.Text, messageConfig.ParseMode,
                 messageConfig.ReplyMarkup)>>
    \o [i \in 1..Len(messageConfig.ExtraTexts) |->
          NewMessage(chatId, messageConfig.ExtraTexts[i], "", "nil")]

getStateMessageConfigs(chatId, messageConfig) ==
    LET msg == NewMessage(chatId, messageConfig.Text, messageConfig.ParseMode,
                          messageConfig.ReplyMarkup)
    IN  <<msg>> \o [i \in 1..Len(messageConfig.ExtraTexts) |->
                      NewMessage(chatId, messageConfig.ExtraTexts[i],
                                 msg.ParseMode, msg.ReplyMarkup)]

\* The loop over the composed messages: each is sent in order, the first
\* failing send ends the loop.  failAt = 0: no send fails.
SendAllKeepsGoing(msgs, failAt) ==
    [i \in 1..Len(msgs) |-> SendCall(msgs[i], i = failAt)]

SendAllRetriesOnce(msgs, failAt) ==
    [i \in 1..(IF failAt = 0 THEN Len(msgs) ELSE failAt + 1) |->
        IF i = failAt + 1 /\ failAt # 0
        THEN SendCall(msgs[failAt], TRUE)
        ELSE SendCall(msgs[i], i = failAt)]

SendAll(msgs, failAt) ==
    [i \in 1..(IF failAt = 0 THEN Len(msgs) ELSE failAt) |->
        SendCall(msgs[i], i = failAt)]

\* removeKeyboard: the placeholder send, then the delete of the sent message;
\* the delete's error is dropped.  A failed send returns no message: nothing
\* is deleted and messageId is not read.
SentMessage(chatId, messageId) == [chat |-> chatId, messageId |-> messageId]

PlaceholderCall(msg, failed, msgSent) ==
    [op |-> "send", msg |-> msg, failed |-> failed, msgSent |-> msgSent]

removeKeyboardKeepsPlaceholder(chatId, tempText, sendFails, deleteFails, messageId) ==
    LET msg == NewMessage(chatId, tempText, "", "RemoveKeyboard")
    IN  IF sendFails
        THEN [calls |-> <<PlaceholderCall(msg, TRUE, SentMessage(0, 0))>>,
              err |-> "DeleteKeyboardError"]
        ELSE [calls |-> <<PlaceholderCall(msg, FALSE, SentMessage(chatId, messageId))>>,
              err |-> "nil"]

removeKeyboardReturnsDeleteError(chatId, tempText, sendFails, deleteFails, messageId) ==
    LET msg == NewMessage(chatId, tempText, "", "RemoveKeyboard")
    IN  IF sendFails
        THEN [calls |-> <<PlaceholderCall(msg, TRUE, SentMessage(0, 0))>>,
              err |-> "DeleteKeyboardError"]
        ELSE [calls |-> <<PlaceholderCall(msg, FALSE, SentMessage(chatId, messageId)),
                          DeleteCall(chatId, messageId, deleteFails)>>,
              err |-> IF deleteFails THEN "DeleteKeyboardError" ELSE "nil"]

removeKeyboardIgnoresSendError(chatId, tempText, sendFails, deleteFails, messageId) ==
    LET msg == NewMessage(chatId, tempText, "", "RemoveKeyboard")
    IN  IF sendFails
        THEN [calls |-> <<PlaceholderCall(msg, TRUE, SentMessage(0, 0))>>,
              err |-> "nil"]
        ELSE [calls |-> <<PlaceholderCall(msg, FALSE, SentMessage(chatId, messageId)),
                          DeleteCall(chatId, messageId, deleteFails)>>,
              err |-> "nil"]

removeKeyboard(chatId, tempText, sendFails, deleteFails, messageId) ==
    LET msg == NewMessage(chatId, tempText, "", "RemoveKeyboard")
    IN  IF sendFails
        THEN [calls |-> <<PlaceholderCall(msg, TRUE, SentMessage(0, 0))>>,
              err |-> "DeleteKeyboardError"]
        ELSE LET msgSent == SentMessage(chatId, messageId)
             IN  [calls |-> <<PlaceholderCall(msg, FALSE, msgSent),
                              DeleteCall(msgSent.chat, msgSent.messageId,
                                         deleteFails)>>,
                  err |-> "nil"]

\* removeKeyboard of the revision "LenientRemoval": it returns nothing and
\* logs both errors.  After a failed send it still reads msgSent.Chat.ID: the
\* transport returns the zero Message with most errors, whose Chat is nil,
\* and the read panics; chatReturned says the returned Message has a Chat.
removeKeyboardLenient(chatId, tempText, sendFails, chatReturned, deleteFails, messageId) ==
    LET msg == NewMessage(chatId, tempText, "", "RemoveKeyboard")
    IN  IF ~chatReturned
        THEN [calls |-> <<PlaceholderCall(msg, sendFails, SentMessage(0, 0))>>,
              err |-> "panic"]
        ELSE LET msgSent == SentMessage(chatId, messageId)
             IN  [calls |-> <<PlaceholderCall(msg, sendFails, msgSent),
                              DeleteCall(msgSent.chat, msgSent.messageId,
                                         deleteFails)>>,
                  err |-> "nil"]

\* The lookup b.configs[state]: a handler is registered for the state.
RegisteredAlways(state) == TRUE

Registered(state) == state \in configs

\* What a missing handler ends the call with: an error value, or a panic in
\* the revision "LenientRemoval".
CurrentStateNotFound ==
    IF revision = "LenientRemoval" THEN "panic"
    ELSE "CurrentStateConfigNotFoundError"

NextStateNotFound ==
    IF revision = "LenientRemoval" THEN "panic"
    ELSE "NextStateConfigNotFoundError"

\* The zero chat id is what getChatId gives when the update names no chat.
NoChatIdNegative(chatId) == chatId < 0

NoChatId(chatId) == chatId = 0

\* resumeState: load, wrap a load error, normalise the empty state.
resumeStateUnseenOnLoadError(m, chatId, loadFails) ==
    IF NoChatId(chatId)
    THEN [state |-> "", data |-> ZeroData, err |-> "NoChatIdError", calls |-> <<>>]
    ELSE IF loadFails
    THEN [state |-> UndefinedState, data |-> ZeroData, err |-> "nil",
          calls |-> <<LoadCall(chatId, "", ZeroData, TRUE)>>]
    ELSE LET r == LoadStateFn(m, chatId)
         IN  [state |-> IF r.name = "" THEN UndefinedState ELSE r.name,
              data |-> r.data, err |-> "nil",
              calls |-> <<LoadCall(chatId, r.name, r.data, FALSE)>>]

resumeStateKeepsEmptyName(m, chatId, loadFails) ==
    IF NoChatId(chatId)
    THEN [state |-> "", data |-> ZeroData, err |-> "NoChatIdError", calls |-> <<>>]
    ELSE IF loadFails
    THEN [state |-> "", data |-> ZeroData, err |-> "LoadStateError",
          calls |-> <<LoadCall(chatId, "", ZeroData, TRUE)>>]
    ELSE LET r == LoadStateFn(m, chatId)
         IN  [state |-> r.name, data |-> r.data, err |-> "nil",
              calls |-> <<LoadCall(chatId, r.name, r.data, FALSE)>>]

resumeState(m, chatId, loadFails) ==
    IF NoChatId(chatId)
    THEN [state |-> "", data |-> ZeroData, err |-> "NoChatIdError", calls |-> <<>>]
    ELSE IF loadFails
    THEN [state |-> "", data |-> ZeroData, err |-> "LoadStateError",
          calls |-> <<LoadCall(chatId, "", ZeroData, TRUE)>>]
    ELSE LET r == LoadStateFn(m, chatId)
         IN  [state |-> IF r.name = "" THEN UndefinedState ELSE r.name,
              data |-> r.data, err |-> "nil",
              calls |-> <<LoadCall(chatId, r.name, r.data, FALSE)>>]

\* HandleUpdate: a command forces the dispatch state to UndefinedState.
DispatchStateKeepLoaded(state, command) == state

DispatchStateDefaultsUnregistered(state, command) ==
    IF command # <<>> \/ state \notin configs THEN UndefinedState ELSE state

DispatchState(state, command) ==
    IF command # <<>> THEN UndefinedState ELSE state

\* HandleUpdate: an empty transition state keeps the dispatch state.
NewStateResetsToUndefined(transition, state) ==
    IF transition.State = "" THEN UndefinedState ELSE transition.State

NewStateKeepsUnregisteredOut(transition, state) ==
    IF transition.State \in configs THEN transition.State ELSE state

NewState(transition, state) ==
    IF transition.State = "" THEN state ELSE transition.State

\* HandleUpdate: which provider gives the message of an empty MessageConfig.
UseUnknownCommandFnNever(command, transition, configured) == FALSE

UseUnknownCommandFn(command, transition, configured) ==
    command # <<>> /\ transition.State = "" /\ configured

\* HandleUpdate: the message of the transition, or else of a provider; with
\* the provider call made, if any.
ResolveMessageIgnoreOverride(command, transition, newState, newData, configured) ==
    IF UseUnknownCommandFn(command, transition, configured)
    THEN [messageConfig |-> undefinedCommandMessageFn(newData),
          calls |-> <<UnknownCommandCall(newData)>>]
    ELSE [messageConfig |-> MessageFn(newState, newData),
          calls |-> <<MessageFnCall(newState, newData)>>]

ResolveMessage(command, transition, newState, newData, configured) ==
    IF Empty(transition.MessageConfig)
    THEN IF UseUnknownCommandFn(command, transition, configured)
         THEN [messageConfig |-> undefinedCommandMessageFn(newData),
               calls |-> <<UnknownCommandCall(newData)>>]
         ELSE [messageConfig |-> MessageFn(newState, newData),
               calls |-> <<MessageFnCall(newState, newData)>>]
    ELSE [messageConfig |-> transition.MessageConfig, calls |-> <<>>]

\* HandleUpdate: the removal runs for the dispatch handler's declaration or
\* for the resolved message's flag.
RemoveKeyboardNeededByMessageOnly(state, messageConfig) ==
    messageConfig.RemoveKeyboard

RemoveKeyboardNeeded(state, messageConfig) ==
    RemoveKeyboardAfter(state) \/ messageConfig.RemoveKeyboard

\* HandleUpdate of the revision with the markers: the removal runs also for
\* the declaration of the handler of the state the conversation enters.
RemoveKeyboardBeforeNever(newState) == FALSE

RemoveKeyboardBeforeNeeded(newState) ==
    revision = "RemoveKeyboardMarkers" /\ RemoveKeyboardBefore(newState)

\* ------------------------------------------------------------ the actions
Finish(op, a, cs, e, m) ==
    /\ pc' = op
    /\ args' = a
    /\ calls' = cs
    /\ err' = e
    /\ store' = m
    /\ before' = store
    /\ UNCHANGED <<opts, revision, mx, goroutines>>

HandleUpdateArgs(update) == [kind |-> "HandleUpdate", update |-> update]
GoToArgs(chatId, transition, data) ==
    [kind |-> "GoTo", chatId |-> chatId, transition |-> transition, data |-> data]

\* HandleUpdate, last part: save the new record, then send the composed
\* messages in order.  A failed save ends the call before any of them.
SendThenSave(update, chatId, cs, newState, newData, messageConfig) ==
    LET msgs == getStateMessageConfigs(chatId, messageConfig)
    IN  \E failAt \in 0..Len(msgs) :
          IF failAt # 0
          THEN Finish("HandleUpdate", HandleUpdateArgs(update),
                      cs \o SendAll(msgs, failAt), "SendError", store)
          ELSE \E saveFails \in BOOLEAN :
                 Finish("HandleUpdate", HandleUpdateArgs(update),
                        cs \o SendAll(msgs, 0)
                           \o <<SaveCall(chatId, newState, newData, saveFails)>>,
                        IF saveFails THEN "SaveStateFnError" ELSE "nil",
                        IF saveFails THEN store
                        ELSE SaveStateFn(store, chatId, newState, newData))

SaveThenSendAnyway(update, chatId, cs, newState, newData, messageConfig) ==
    LET msgs == getStateMessageConfigs(chatId, messageConfig)
    IN  \E saveFails \in BOOLEAN, failAt \in 0..Len(msgs) :
          Finish("HandleUpdate", HandleUpdateArgs(update),
                 Append(cs, SaveCall(chatId, newState, newData, saveFails))
                    \o SendAll(msgs, failAt),
                 IF failAt = 0 THEN "nil" ELSE "SendError",
                 IF saveFails THEN store
                 ELSE SaveStateFn(store, chatId, newState, newData))

SaveAndSend(update, chatId, cs, newState, newData, messageConfig) ==
    \E saveFails \in BOOLEAN :
      IF saveFails
      THEN Finish("HandleUpdate", HandleUpdateArgs(update),
                  Append(cs, SaveCall(chatId, newState, newData, TRUE)),
                  "SaveStateFnError", store)
      ELSE LET msgs == getStateMessageConfigs(chatId, messageConfig)
           IN  \E failAt \in 0..Len(msgs) :
                 Finish("HandleUpdate", HandleUpdateArgs(update),
                        Append(cs, SaveCall(chatId, newState, newData, FALSE))
                           \o SendAll(msgs, failAt),
                        IF failAt = 0 THEN "nil" ELSE "SendError",
                        SaveStateFn(store, chatId, newState, newData))

\* HandleUpdate, the keyboard removal that precedes the save.
RemoveKeyboardStep(update, chatId, cs, state, newState, newData, messageConfig) ==
    IF revision = "LenientRemoval"
    THEN IF RemoveKeyboardNeeded(state, messageConfig)
         THEN \E sendFails \in BOOLEAN :
              \E chatReturned \in (IF sendFails THEN BOOLEAN ELSE {TRUE}) :
              \E deleteFails \in (IF chatReturned THEN BOOLEAN ELSE {FALSE}),
                 messageId \in (IF sendFails THEN {0} ELSE MessageIds) :
                LET r == removeKeyboardLenient(chatId, opts.removeKeyboardTempText,
                                               sendFails, chatReturned,
                                               deleteFails, messageId)
                IN  IF r.err # "nil"
                    THEN Finish("HandleUpdate", HandleUpdateArgs(update),
                                cs \o r.calls, r.err, store)
                    ELSE SaveAndSend(update, chatId, cs \o r.calls,
                                     newState, newData, messageConfig)
         ELSE SaveAndSend(update, chatId, cs, newState, newData, messageConfig)
    ELSE
    IF RemoveKeyboardNeeded(state, messageConfig)
       \/ RemoveKeyboardBeforeNeeded(newState)
    THEN \E sendFails \in BOOLEAN :
         \E deleteFails \in (IF sendFails THEN {FALSE} ELSE BOOLEAN),
            messageId \in (IF sendFails THEN {0} ELSE MessageIds) :
           LET r == removeKeyboard(chatId, opts.removeKeyboardTempText,
                                   sendFails, deleteFails, messageId)
           IN  IF r.err # "nil"
               THEN Finish("HandleUpdate", HandleUpdateArgs(update),
                           cs \o r.calls, r.err, store)
               ELSE SaveAndSend(update, chatId, cs \o r.calls,
                                newState, newData, messageConfig)
    ELSE SaveAndSend(update, chatId, cs, newState, newData, messageConfig)

\* HandleUpdate, from the transition to the message to send.
Resolve(update, chatId, cs, state, command, transition, newData) ==
    LET newState == NewState(transition, state)
    IN  IF ~Registered(newState)
        THEN Finish("HandleUpdate", HandleUpdateArgs(update), cs,
                    NextStateNotFound, store)
        ELSE LET r == ResolveMessage(command, transition, newState, newData,
                                     opts.undefinedCommandMessageFn)
             IN  RemoveKeyboardStep(update, chatId, cs \o r.calls, state,
                                    newState, newData, r.messageConfig)

\* HandleUpdate, from the loaded record to the transition: a registered
\* command's handler, the empty transition of an unregistered command, or
\* the TransitionFn of the current state's handler.
\* newData := data: the payload of a call whose TransitionFn is not called.
newDataDefaultZero(data) == ZeroData

newDataDefault(data) == data

Dispatch(update, chatId, cs, loaded, data) ==
    LET command == extractCommand(update)
        state == DispatchState(loaded, command)
    IN  IF ~Registered(state)
        THEN Finish("HandleUpdate", HandleUpdateArgs(update), cs,
                    CurrentStateNotFound, store)
        ELSE IF command # <<>>
        THEN IF command \in commands
             THEN \E transition \in Transitions, newData \in Data :
                    Resolve(update, chatId,
                            Append(cs, CommandTransitionCall(command, data,
                                                             transition, newData)),
                            state, command, transition, newData)
             ELSE Resolve(update, chatId, cs, state, command,
                          [State |-> "", MessageConfig |->
                              MessageConfigOf("", <<>>, "", "nil", FALSE)],
                          newDataDefault(data))
        ELSE \E transition \in Transitions, newData \in Data :
               Resolve(update, chatId,
                       Append(cs, StateTransitionCall(state, data,
                                                      transition, newData)),
                       state, command, transition, newData)

HandleUpdate ==
    /\ pc = "idle"
    /\ \E update \in Updates :
         LET chatId == getChatId(update)
         IN  IF NoChatId(chatId)
             THEN Finish("HandleUpdate", HandleUpdateArgs(update), <<>>,
                         "NoChatIdError", store)
             ELSE \E loadFails \in BOOLEAN :
                    LET r == resumeState(store, chatId, loadFails)
                    IN  IF r.err # "nil"
                        THEN Finish("HandleUpdate", HandleUpdateArgs(update),
                                    r.calls, r.err, store)
                        ELSE Dispatch(update, chatId, r.calls, r.state, r.data)

\* GoTo: the message of the transition, or else of the target state's
\* MessageFn called with the data given; with the provider call made, if any.
GoToMessageAlwaysDefault(transition, data) ==
    [messageConfig |-> MessageFn(transition.State, data),
     calls |-> <<MessageFnCall(transition.State, data)>>]

GoToMessage(transition, data) ==
    IF Empty(transition.MessageConfig)
    THEN [messageConfig |-> MessageFn(transition.State, data),
          calls |-> <<MessageFnCall(transition.State, data)>>]
    ELSE [messageConfig |-> transition.MessageConfig, calls |-> <<>>]

\* GoTo removes the keyboard when the message asks for it; GoTo of the
\* revision "LenientRemoval" never does.
GoToRemovesKeyboardAlways(messageConfig) == revision # "LenientRemoval"

GoToRemovesKeyboard(messageConfig) ==
    revision # "LenientRemoval" /\ messageConfig.RemoveKeyboard

\* GoTo: the target must be registered; save, then the removal the message
\* asks for, then the composed messages.
GoTo ==
    /\ pc = "idle"
    /\ \E chatId \in ChatIds, transition \in Transitions, data \in Data :
         LET a == GoToArgs(chatId, transition, data)
         IN  IF ~Registered(transition.State)
             THEN Finish("GoTo", a, <<>>, NextStateNotFound, store)
             ELSE
             LET resolved == GoToMessage(transition, data)
                 messageConfig == resolved.messageConfig
                 cs0 == resolved.calls
                 msgs == getStateMessageConfigs(chatId, messageConfig)
             IN  \E saveFails \in BOOLEAN :
                   IF saveFails
                   THEN Finish("GoTo", a,
                               Append(cs0, SaveCall(chatId, transition.State, data, TRUE)),
                               "SaveStateError", store)
                   ELSE
                   LET cs1 == Append(cs0, SaveCall(chatId, transition.State, data, FALSE))
                       saved == SaveStateFn(store, chatId, transition.State, data)
                   IN  IF GoToRemovesKeyboard(messageConfig)
                       THEN \E sendFails \in BOOLEAN :
                            \E deleteFails \in (IF sendFails THEN {FALSE} ELSE BOOLEAN),
                               messageId \in (IF sendFails THEN {0} ELSE MessageIds) :
                              LET r == removeKeyboard(chatId, opts.removeKeyboardTempText,
                                                      sendFails, deleteFails, messageId)
                              IN  IF r.err # "nil"
                                  THEN Finish("GoTo", a, cs1 \o r.calls, r.err, saved)
                                  ELSE \E failAt \in 0..Len(msgs) :
                                         Finish("GoTo", a,
                                                cs1 \o r.calls \o SendAll(msgs, failAt),
                                                IF failAt = 0 THEN "nil" ELSE "SendError",
                                                saved)
                       ELSE \E failAt \in 0..Len(msgs) :
                              Finish("GoTo", a, cs1 \o SendAll(msgs, failAt),
                                     IF failAt = 0 THEN "nil" ELSE "SendError",
                                     saved)

\* The caller's loop: the call has returned, the next one may start.
Return ==
    /\ pc # "idle"
    /\ pc' = "idle"
    /\ args' = NoArgs
    /\ calls' = <<>>
    /\ err' = "nil"
    /\ before' = store
    /\ UNCHANGED <<store, opts, revision, mx, goroutines>>

\* NewBotFsm with getDefaultOpts: an empty in-memory store; the placeholder
\* text and the unknown-command provider are options.
Init ==
    /\ store = <<>>
    /\ opts \in Options
    /\ pc = "idle"
    /\ args = NoArgs
    /\ calls = <<>>
    /\ err = "nil"
    /\ mx = Unlocked
    /\ goroutines = NoGoroutines
    /\ before = <<>>
    /\ revision = "RemoveKeyboardManager"

Next == HandleUpdate \/ GoTo \/ Return

Spec == Init /\ [][Next]_vars

\* NewBotFsm with WithPersistenceHandler: the engine starts on the storage
\* it is given.  A record found there was written by an earlier run of the
\* bot and may name a state that is registered no more, or no state.
PersistedStores ==
    {<<>>} \cup {put(<<>>, c, ChatState(c, n, d)) :
                    c \in ChatIds, n \in StateNames \cup {""}, d \in Data}

InitPersisted ==
    /\ store \in PersistedStores
    /\ opts \in Options
    /\ pc = "idle"
    /\ args = NoArgs
    /\ calls = <<>>
    /\ err = "nil"
    /\ mx = Unlocked
    /\ goroutines = NoGoroutines
    /\ before = store
    /\ revision = "RemoveKeyboardManager"

SpecPersisted == InitPersisted /\ [][Next]_vars

\* The engine of the revision with the two keyboard markers.
InitMarkers ==
    /\ store = <<>>
    /\ opts \in Options
    /\ pc = "idle"
    /\ args = NoArgs
    /\ calls = <<>>
    /\ err = "nil"
    /\ mx = Unlocked
    /\ goroutines = NoGoroutines
    /\ before = <<>>
    /\ revision = "RemoveKeyboardMarkers"

SpecMarkers == InitMarkers /\ [][Next]_vars

\* The engine of the revision whose removeKeyboard returns nothing.
InitLenient ==
    /\ store = <<>>
    /\ opts \in Options
    /\ pc = "idle"
    /\ args = NoArgs
    /\ calls = <<>>
    /\ err = "nil"
    /\ mx = Unlocked
    /\ goroutines = NoGoroutines
    /\ before = <<>>
    /\ revision = "LenientRemoval"

SpecLenient == InitLenient /\ [][Next]_vars

\* NewBotFsm: the state map given must register UndefinedState and must not
\* register the empty name; else the constructor panics and returns no engine.
NewBotFsmAllowsEmptyKey(candidate) ==
    IF UndefinedState \notin candidate THEN "panic" ELSE "nil"

NewBotFsm(candidate) ==
    IF UndefinedState \notin candidate THEN "panic"
    ELSE IF "" \in candidate THEN "panic"
    ELSE "nil"

\* The state maps a program may hand to NewBotFsm: by their sets of keys.
CandidateConfigs == SUBSET (StateNames \cup {""})

NewBotFsmArgs(candidate) == [kind |-> "NewBotFsm", configs |-> candidate]

NewBotFsmCall ==
    /\ pc = "new"
    /\ \E candidate \in CandidateConfigs :
         /\ pc' = "NewBotFsm"
         /\ args' = NewBotFsmArgs(candidate)
         /\ err' = NewBotFsm(candidate)
    /\ UNCHANGED <<store, opts, calls, before, revision, mx, goroutines>>

\* The program before it constructs its engine.
InitNew ==
    /\ store = <<>>
    /\ opts \in Options
    /\ pc = "new"
    /\ args = NoArgs
    /\ calls = <<>>
    /\ err = "nil"
    /\ mx = Unlocked
    /\ goroutines = NoGoroutines
    /\ before = <<>>
    /\ revision = "RemoveKeyboardManager"

NextNew == NewBotFsmCall

SpecNew == InitNew /\ [][NextNew]_vars

\* The default persistence handlers used on their own: saves and loads for
\* several chat ids in any order.  calls keeps the saves made so far.
StoreIds == 1..(NumChats + 1)
StoreNames == {"menu", "form"}

LoadStateFnArgs(chatId, result) ==
    [kind |-> "LoadStateFn", chatId |-> chatId, result |-> result]

StoreSave ==
    /\ pc \in {"idle", "SaveStateFn", "LoadStateFn"}
    /\ Len(calls) < MaxSaves
    /\ \E chatId \in StoreIds, name \in StoreNames, data \in Data :
         /\ store' = SaveStateFn(store, chatId, name, data)
         /\ calls' = Append(calls, SaveCall(chatId, name, data, FALSE))
    /\ pc' = "SaveStateFn"
    /\ args' = NoArgs
    /\ err' = "nil"
    /\ before' = store
    /\ UNCHANGED <<opts, revision, mx, goroutines>>

StoreLoad ==
    /\ pc \in {"idle", "SaveStateFn", "LoadStateFn"}
    /\ \E chatId \in StoreIds :
         args' = LoadStateFnArgs(chatId, LoadStateFn(store, chatId))
    /\ pc' = "LoadStateFn"
    /\ err' = "nil"
    /\ before' = store
    /\ UNCHANGED <<store, calls, opts, revision, mx, goroutines>>

NextStore == StoreSave \/ StoreLoad

SpecStore == Init /\ [][NextStore]_vars

\* ------------------------------------------------ concurrent goroutines
\* The operations of ChatStatesStore step by step: the call waits for the
\* lock ("lock"), holds it before the map access ("access") and after it
\* ("unlock"), and has released it when it returns ("returned").
Goroutines == 1..NumGoroutines

NotFound == [val |-> ChatState(0, "", ZeroData), ok |-> FALSE]

Goroutine(fn) ==
    [fn |-> fn, line |-> "start", op |-> "none", at |-> "returned",
     key |-> 0, val |-> ChatState(0, "", ZeroData), got |-> NotFound,
     state |-> "", data |-> ZeroData, ops |-> 0]

\* sync.RWMutex: RLock waits while a writer holds the lock; Lock waits while
\* a writer or any reader holds it.
CanRLock(m) == m.writer = 0

CanLockAmongReaders(m) == m.writer = 0

CanLock(m) == m.writer = 0 /\ m.readers = {}

RLockStep(g) ==
    /\ goroutines[g].op = "get"
    /\ goroutines[g].at = "lock"
    /\ CanRLock(mx)
    /\ mx' = [mx EXCEPT !.readers = @ \cup {g}]
    /\ goroutines' = [goroutines EXCEPT ![g].at = "access"]
    /\ UNCHANGED <<store, opts, pc, args, calls, err, before, revision>>

\* The map read of get; a goroutine in HandleUpdate takes from it the state
\* and the payload resumeState will return.
GetStep(g) ==
    /\ goroutines[g].op = "get"
    /\ goroutines[g].at = "access"
    /\ LET r == resumeState(store, goroutines[g].key, FALSE)
       IN  goroutines' = [goroutines EXCEPT
               ![g].at = "unlock",
               ![g].got = get(store, goroutines[g].key),
               ![g].state = IF goroutines[g].fn = "HandleUpdate"
                            THEN r.state ELSE @,
               ![g].data = IF goroutines[g].fn = "HandleUpdate"
                           THEN r.data ELSE @]
    /\ UNCHANGED <<store, opts, pc, args, calls, err, before, revision, mx>>

RUnlockStep(g) ==
    /\ goroutines[g].op = "get"
    /\ goroutines[g].at = "unlock"
    /\ mx' = [mx EXCEPT !.readers = @ \ {g}]
    /\ goroutines' = [goroutines EXCEPT ![g].at = "returned", ![g].op = "none"]
    /\ UNCHANGED <<store, opts, pc, args, calls, err, before, revision>>

LockStep(g) ==
    /\ goroutines[g].op \in {"put", "delete"}
    /\ goroutines[g].at = "lock"
    /\ CanLock(mx)
    /\ mx' = [mx EXCEPT !.writer = g]
    /\ goroutines' = [goroutines EXCEPT ![g].at = "access"]
    /\ UNCHANGED <<store, opts, pc, args, calls, err, before, revision>>

PutStep(g) ==
    /\ goroutines[g].op = "put"
    /\ goroutines[g].at = "access"
    /\ store' = put(store, goroutines[g].key, goroutines[g].val)
    /\ calls' = Append(calls, SaveCall(goroutines[g].key, goroutines[g].val.name,
                                       goroutines[g].val.data, FALSE))
    /\ goroutines' = [goroutines EXCEPT ![g].at = "unlock"]
    /\ UNCHANGED <<opts, pc, args, err, before, revision, mx>>

DeleteStep(g) ==
    /\ goroutines[g].op = "delete"
    /\ goroutines[g].at = "access"
    /\ store' = delete(store, goroutines[g].key)
    /\ goroutines' = [goroutines EXCEPT ![g].at = "unlock"]
    /\ UNCHANGED <<opts, pc, args, calls, err, before, revision, mx>>

UnlockStep(g) ==
    /\ goroutines[g].op \in {"put", "delete"}
    /\ goroutines[g].at = "unlock"
    /\ mx' = [mx EXCEPT !.writer = 0]
    /\ goroutines' = [goroutines EXCEPT ![g].at = "returned", ![g].op = "none"]
    /\ UNCHANGED <<store, opts, pc, args, calls, err, before, revision>>

\* Goroutines that call the store's operations directly, each at most
\* MaxOps times.
StoreCall(g) ==
    /\ goroutines[g].fn = "caller"
    /\ goroutines[g].op = "none"
    /\ goroutines[g].ops < MaxOps
    /\ \E op \in {"get", "put", "delete"}, key \in ChatIds, data \in Data :
         goroutines' = [goroutines EXCEPT
             ![g].op = op, ![g].at = "lock", ![g].key = key,
             ![g].val = IF op = "put" THEN ChatState(key, "menu", data) ELSE @,
             ![g].ops = @ + 1]
    /\ UNCHANGED <<store, opts, pc, args, calls, err, before, revision, mx>>

InitLocks ==
    /\ store = <<>>
    /\ opts = [undefinedCommandMessageFn |-> FALSE,
               removeKeyboardTempText |-> DefaultTempText]
    /\ pc = "idle"
    /\ args = NoArgs
    /\ calls = <<>>
    /\ err = "nil"
    /\ before = <<>>
    /\ revision = "RemoveKeyboardManager"
    /\ mx = Unlocked
    /\ goroutines = [g \in Goroutines |-> Goroutine("caller")]

NextLocks ==
    \E g \in Goroutines :
      \/ StoreCall(g)
      \/ RLockStep(g)
      \/ GetStep(g)
      \/ RUnlockStep(g)
      \/ LockStep(g)
      \/ PutStep(g)
      \/ DeleteStep(g)
      \/ UnlockStep(g)

SpecLocks == InitLocks /\ [][NextLocks]_vars

\* Goroutines that each run HandleUpdate once, for a text message that is
\* not a command, of the same chat: the load, then the handler and whatever
\* else the call does without the store, then the save, then the sends.
BeginHandleUpdate(g) ==
    /\ goroutines[g].fn = "HandleUpdate"
    /\ goroutines[g].line = "start"
    /\ goroutines' = [goroutines EXCEPT
           ![g].line = "load", ![g].op = "get", ![g].at = "lock", ![g].key = 1]
    /\ UNCHANGED <<store, opts, pc, args, calls, err, before, revision, mx>>

TransitionStep(g) ==
    /\ goroutines[g].fn = "HandleUpdate"
    /\ goroutines[g].line = "load"
    /\ goroutines[g].op = "none"
    /\ \E transition \in Transitions, newData \in Data :
         LET state == DispatchState(goroutines[g].state, <<>>)
             newState == NewState(transition, state)
         IN  IF Registered(state) /\ Registered(newState)
             THEN goroutines' = [goroutines EXCEPT
                      ![g].line = "save", ![g].op = "put", ![g].at = "lock",
                      ![g].val = ChatState(goroutines[g].key, newState, newData)]
             ELSE goroutines' = [goroutines EXCEPT ![g].line = "return"]
    /\ UNCHANGED <<store, opts, pc, args, calls, err, before, revision, mx>>

SendStep(g) ==
    /\ goroutines[g].fn = "HandleUpdate"
    /\ goroutines[g].line = "save"
    /\ goroutines[g].op = "none"
    /\ goroutines' = [goroutines EXCEPT ![g].line = "return"]
    /\ UNCHANGED <<store, opts, pc, args, calls, err, before, revision, mx>>

InitConcurrent ==
    /\ store \in PersistedStores
    /\ opts = [undefinedCommandMessageFn |-> FALSE,
               removeKeyboardTempText |-> DefaultTempText]
    /\ pc = "idle"
    /\ args = NoArgs
    /\ calls = <<>>
    /\ err = "nil"
    /\ before = store
    /\ revision = "RemoveKeyboardManager"
    /\ mx = Unlocked
    /\ goroutines = [g \in Goroutines |-> Goroutine("HandleUpdate")]

NextConcurrent ==
    \E g \in Goroutines :
      \/ BeginHandleUpdate(g)
      \/ RLockStep(g)
      \/ GetStep(g)
      \/ RUnlockStep(g)
      \/ TransitionStep(g)
      \/ LockStep(g)
      \/ PutStep(g)
      \/ UnlockStep(g)
      \/ SendStep(g)

SpecConcurrent == InitConcurrent /\ [][NextConcurrent]_vars

\* =================================================================== claims
\* What a finished call shows: the calls it made, in order.
Handled == pc = "HandleUpdate"
Idx == DOMAIN calls
Has(op) == \E i \in Idx : calls[i].op = op
IsTransitionFn(i) == calls[i].op \in {"StateTransitionFn", "CommandTransitionFn"}
LoadedOk == Handled /\ calls # <<>> /\ calls[1].op = "load" /\ ~calls[1].failed
LoadedState == IF calls[1].name = "" THEN UndefinedState ELSE calls[1].name
LoadedChat == calls[1].chat
SavedOk(i) == calls[i].op = "save" /\ ~calls[i].failed
IsPlaceholder(i) == calls[i].op = "send" /\ calls[i].msg.ReplyMarkup = "RemoveKeyboard"
IsComposed(i) == calls[i].op = "send" /\ calls[i].msg.ReplyMarkup # "RemoveKeyboard"
FirstComposed(i) == IsComposed(i) /\ \A j \in 1..(i - 1) : ~IsComposed(j)
CollaboratorFailed(i) ==
    calls[i].op \in {"load", "save", "send"} /\ calls[i].failed

\* The shapes of an update's text, as the specification words them.
MarkerNoSpace(u) ==
    /\ u.hasMessage
    /\ u.text # <<>>
    /\ u.text[1] = "/"
    /\ \A i \in DOMAIN u.text : u.text[i] # " "
NonCommandShape(u) ==
    \/ ~u.hasMessage
    \/ u.text = <<>>
    \/ u.text[1] # "/"
    \/ \E i \in DOMAIN u.text : u.text[i] = " "
RegisteredCommandText(u) == MarkerNoSpace(u) /\ Tail(u.text) \in commands
UnknownCommandText(u) ==
    MarkerNoSpace(u) /\ Len(u.text) >= 2 /\ Tail(u.text) \notin commands

\* C1: self-loop law for non-command events: when the TransitionFn of the
\* current state S returns a Transition with an empty next state and
\* HandleUpdate succeeds, the persisted state of the conversation is S, the
\* state loaded before the event.
C1_SelfLoop ==
    (Handled /\ err = "nil") =>
        \A i \in Idx :
            (calls[i].op = "StateTransitionFn" /\ calls[i].transition.State = "")
            => /\ LoadedOk
               /\ calls[i].state = LoadedState
               /\ (LoadedChat \in DOMAIN before
                     => before[LoadedChat].name = calls[1].name)
               /\ LoadedChat \in DOMAIN store
               /\ store[LoadedChat].name = LoadedState

C1_Witness ==
    /\ Handled /\ err = "nil" /\ LoadedOk
    /\ calls[1].name = "menu"
    /\ \E i \in Idx : /\ calls[i].op = "StateTransitionFn"
                      /\ calls[i].transition.State = ""
    /\ store[LoadedChat].name = "menu"

\* A command event whose transition has an empty next state: a registered
\* command whose handler names no state, or an unregistered command.
CommandEmptyNext ==
    /\ LoadedOk
    /\ MarkerNoSpace(args.update)
    /\ Len(args.update.text) >= 2
    /\ \A i \in Idx : calls[i].op = "CommandTransitionFn"
                        => calls[i].transition.State = ""

\* C2 as stated: after a command event whose transition has an empty next
\* state, the saved state is the state loaded before the event.
C2_StaysInLoadedState ==
    CommandEmptyNext => \A i \in Idx : SavedOk(i) => calls[i].name = LoadedState

\* C2, amended: after a command event whose transition has an empty next
\* state, the saved state is UndefinedState, whatever state was loaded.
C2_CommandResetsToUndefined ==
    CommandEmptyNext =>
        \A i \in Idx : SavedOk(i) =>
            /\ calls[i].name = UndefinedState
            /\ store[LoadedChat].name = UndefinedState

C2_Witness ==
    /\ CommandEmptyNext
    /\ calls[1].name = "menu"
    /\ Has("CommandTransitionFn")
    /\ \E i \in Idx : SavedOk(i) /\ calls[i].name = UndefinedState

\* C3: override law: when the handler's Transition carries a non-empty
\* Text, neither a state's MessageFn nor the unknown-command provider is
\* called, the first composed message sent has exactly that Text, and a
\* successful call has sent it.
C3_Override ==
    Handled =>
        \A i \in Idx :
            (IsTransitionFn(i) /\ calls[i].transition.MessageConfig.Text # "")
            => /\ ~Has("MessageFn")
               /\ ~Has("undefinedCommandMessageFn")
               /\ \A j \in Idx : FirstComposed(j) =>
                      calls[j].msg.text = calls[i].transition.MessageConfig.Text
               /\ (err = "nil" => \E j \in Idx : FirstComposed(j))

C3_Witness ==
    /\ Handled /\ err = "nil"
    /\ \E i \in Idx : /\ calls[i].op = "StateTransitionFn"
                      /\ calls[i].transition.State = "form"
                      /\ calls[i].transition.MessageConfig.Text = "t"
    /\ \E j \in Idx : FirstComposed(j) /\ calls[j].msg.text = "t"

\* C4: default-message law: when the handler's Transition carries an empty
\* MessageConfig and HandleUpdate succeeds, the first composed message has
\* the Text of the target state's MessageFn called with the new payload.
C4_DefaultMessage ==
    (Handled /\ err = "nil") =>
        \A i \in Idx :
            (IsTransitionFn(i) /\ calls[i].transition.MessageConfig.Text = "")
            => \E j \in Idx, k \in Idx :
                  /\ SavedOk(k)
                  /\ FirstComposed(j)
                  /\ calls[j].msg.text =
                        MessageFn(calls[k].name, calls[i].newData).Text

\* C5: command preemption: for a registered command the command handler's
\* TransitionFn is called, once, right after the load and with the loaded
\* payload; no state's TransitionFn is called, whatever state was loaded;
\* the dispatch state is UndefinedState, so the current state always
\* resolves and an empty next state is saved as UndefinedState.
C5_Preemption ==
    (LoadedOk /\ RegisteredCommandText(args.update)) =>
        /\ ~Has("StateTransitionFn")
        /\ Len(calls) >= 2
        /\ calls[2].op = "CommandTransitionFn"
        /\ calls[2].command = Tail(args.update.text)
        /\ calls[2].data = calls[1].data
        /\ \A i \in Idx : calls[i].op = "CommandTransitionFn" => i = 2
        /\ err # "CurrentStateConfigNotFoundError"
        /\ \A k \in Idx : (SavedOk(k) /\ calls[2].transition.State = "")
                            => calls[k].name = UndefinedState

C5_Witness ==
    /\ LoadedOk /\ RegisteredCommandText(args.update)
    /\ calls[1].name = "menu"
    /\ calls[2].op = "CommandTransitionFn"
    /\ calls[2].transition.State = "form"
    /\ err = "nil"

\* What classification as the command with keyword Tail(text) shows: no
\* state's TransitionFn runs, a registered keyword's handler does, under
\* that keyword, and the dispatch state is UndefinedState.
DispatchedAsCommand ==
    /\ ~Has("StateTransitionFn")
    /\ \A i \in Idx : calls[i].op = "CommandTransitionFn"
                        => calls[i].command = Tail(args.update.text)
    /\ (Tail(args.update.text) \in commands => Has("CommandTransitionFn"))
    /\ err # "CurrentStateConfigNotFoundError"
    /\ \A k \in Idx :
          (SavedOk(k) /\ \A i \in Idx : IsTransitionFn(i)
                                          => calls[i].transition.State = "")
          => calls[k].name = UndefinedState

\* C6 as stated: every text message that starts with "/" and holds no space
\* is dispatched as the command named by the text without the "/", the
\* text "/" alone included.
C6_EveryMarkerTextIsCommand ==
    (LoadedOk /\ MarkerNoSpace(args.update)) => DispatchedAsCommand

\* C6, amended: every text message that starts with "/", holds no space and
\* has at least one character after the "/" is dispatched as the command
\* named by the text without the "/"; the text "/" alone is no command and
\* goes to the TransitionFn of the loaded state.
C6_MarkerTextWithKeywordIsCommand ==
    /\ (LoadedOk /\ MarkerNoSpace(args.update) /\ Len(args.update.text) >= 2)
          => DispatchedAsCommand
    /\ (LoadedOk /\ args.update.hasMessage /\ args.update.text = <<"/">>)
          => /\ ~Has("CommandTransitionFn")
             /\ ~Has("undefinedCommandMessageFn")
             /\ Len(calls) >= 2
             /\ calls[2].op = "StateTransitionFn"
             /\ calls[2].state = LoadedState

C6_Witness ==
    /\ LoadedOk
    /\ args.update.text = <<"/", "/">>
    /\ calls[1].name = "form"
    /\ ~Has("StateTransitionFn")
    /\ \E k \in Idx : SavedOk(k) /\ calls[k].name = UndefinedState

\* C7: an update without a text message, or whose text does not start with
\* "/", or whose text holds a space, is no command: it goes to the
\* TransitionFn of the loaded state, with the loaded payload, and neither a
\* command handler nor the unknown-command provider is called.
C7_NonCommand ==
    (LoadedOk /\ NonCommandShape(args.update)) =>
        /\ ~Has("CommandTransitionFn")
        /\ ~Has("undefinedCommandMessageFn")
        /\ (LoadedState \in configs =>
              /\ Len(calls) >= 2
              /\ calls[2].op = "StateTransitionFn"
              /\ calls[2].state = LoadedState
              /\ calls[2].data = calls[1].data
              /\ \A i \in Idx : IsTransitionFn(i) => i = 2)

C7_Witness ==
    /\ LoadedOk
    /\ args.update.text = <<"/", " ">>
    /\ calls[1].name = "menu"
    /\ calls[2].op = "StateTransitionFn"
    /\ calls[2].state = "menu"

\* C8: unknown-command fallback: a command with no registered handler is no
\* configuration error and fails only if the save or a send fails; no
\* TransitionFn runs; the message is the unknown-command provider's, or the
\* MessageFn of UndefinedState's when no provider is configured, called with
\* the loaded payload; the record saved is UndefinedState with that payload.
C8_UnknownCommandFallback ==
    (LoadedOk /\ UnknownCommandText(args.update)) =>
        /\ err \in {"nil", "SaveStateFnError", "SendError"}
        /\ ((\A i \in Idx : ~CollaboratorFailed(i)) => err = "nil")
        /\ \A i \in Idx : ~IsTransitionFn(i)
        /\ Len(calls) >= 2
        /\ calls[2] = (IF opts.undefinedCommandMessageFn
                       THEN UnknownCommandCall(calls[1].data)
                       ELSE MessageFnCall(UndefinedState, calls[1].data))
        /\ \A i \in Idx : calls[i].op \in {"MessageFn", "undefinedCommandMessageFn"}
                            => i = 2
        /\ \A j \in Idx : FirstComposed(j) =>
              calls[j].msg.text =
                  (IF opts.undefinedCommandMessageFn
                   THEN undefinedCommandMessageFn(calls[1].data).Text
                   ELSE MessageFn(UndefinedState, calls[1].data).Text)
        /\ \A k \in Idx : SavedOk(k) =>
              /\ calls[k].name = UndefinedState
              /\ calls[k].data = calls[1].data
              /\ store[LoadedChat].name = UndefinedState
        /\ (err = "nil" => (\E k \in Idx : SavedOk(k))
                           /\ (\E j \in Idx : FirstComposed(j)))

C8_Witness ==
    /\ LoadedOk /\ UnknownCommandText(args.update)
    /\ opts.undefinedCommandMessageFn
    /\ calls[1].name = "menu"
    /\ calls[1].data = 1
    /\ err = "nil"
    /\ \E j \in Idx : FirstComposed(j) /\ calls[j].msg.text = "unknown:1"

\* C9: the unknown-command provider gives the message only for commands
\* without a registered handler: never in a call in which a registered
\* command handler ran.
C9_ProviderOnlyForUnregistered ==
    Handled => (Has("CommandTransitionFn") => ~Has("undefinedCommandMessageFn"))

\* C10 as stated: in HandleUpdate no send, the removal placeholder included,
\* comes before the completed save.
C10_NoSendBeforeSave ==
    Handled => \A i \in Idx : calls[i].op = "send"
                  => \E j \in 1..(i - 1) : SavedOk(j)

\* C10, amended: in HandleUpdate no composed message is sent before the save
\* has completed; the removal placeholder's send and delete come before the
\* save.
C10_NoComposedSendBeforeSave ==
    Handled =>
        /\ \A i \in Idx : IsComposed(i) => \E j \in 1..(i - 1) : SavedOk(j)
        /\ \A i \in Idx : (IsPlaceholder(i) \/ calls[i].op = "delete")
              => \A j \in Idx : calls[j].op = "save" => i < j

C10_Witness ==
    /\ Handled /\ err = "nil"
    /\ \E i \in Idx, j \in Idx, k \in Idx :
          /\ i < j /\ j < k
          /\ IsPlaceholder(i)
          /\ SavedOk(j)
          /\ IsComposed(k)

\* What both operations return for a failed save: HandleUpdate wraps the
\* persistence error with fmt.Errorf and %w, GoTo in a SaveStateError.
SaveErrorOf(op) == IF op = "HandleUpdate" THEN "SaveStateFnError" ELSE "SaveStateError"

\* C11: save failure aborts delivery: when the save fails in HandleUpdate or
\* in GoTo, the call returns the error that wraps the persistence error, the
\* failed save is the last call made (no send, no delete follows it, none of
\* the composed messages is sent) and the stored records are what they were.
C11_SaveFailureAborts ==
    (pc \in {"HandleUpdate", "GoTo"}) =>
        \A i \in Idx :
            (calls[i].op = "save" /\ calls[i].failed)
            => /\ i = Len(calls)
               /\ err = SaveErrorOf(pc)
               /\ \A j \in Idx : ~IsComposed(j)
               /\ store = before

C11_Witness ==
    /\ Handled
    /\ err = "SaveStateFnError"
    /\ Len(calls) >= 2
    /\ calls[Len(calls)].op = "save"
    /\ calls[Len(calls)].failed
    /\ calls[Len(calls)].name = "form"
    /\ \E i \in Idx : IsTransitionFn(i) /\ calls[i].transition.MessageConfig.Text = "t"

\* C12: load failure aborts the event before any handler runs: when the
\* load fails, HandleUpdate returns the LoadStateError that wraps the cause;
\* the failed load is the only call made (no TransitionFn, no MessageFn, no
\* unknown-command provider, no save, no send) and the stored records are
\* what they were.
C12_LoadFailureAborts ==
    Handled =>
        \A i \in Idx :
            (calls[i].op = "load" /\ calls[i].failed)
            => /\ err = "LoadStateError"
               /\ Len(calls) = 1
               /\ \A j \in Idx :
                     /\ ~IsTransitionFn(j)
                     /\ calls[j].op \notin {"MessageFn", "undefinedCommandMessageFn",
                                            "save", "send", "delete"}
               /\ store = before

C12_Witness ==
    /\ Handled
    /\ err = "LoadStateError"
    /\ calls # <<>>
    /\ calls[1].op = "load"
    /\ calls[1].failed
    /\ RegisteredCommandText(args.update)
    /\ before # <<>>

\* An update that names no conversation: no chat of a message and no chat
\* of a callback query's message, or the chat id 0.
Unidentifiable(u) ==
    /\ (~u.hasMessage \/ u.msgChat = 0)
    /\ (~u.hasCallback \/ u.cbChat = 0)

\* C13: unidentifiable conversation: HandleUpdate returns NoChatIdError for
\* exactly the updates that name no conversation, and then it has made no
\* call at all (no load, no handler, no save, no send) and has left the
\* stored records as they were, so the next event finds the engine as if
\* this one had not come.
C13_NoChatId ==
    Handled =>
        /\ (err = "NoChatIdError" <=> Unidentifiable(args.update))
        /\ (Unidentifiable(args.update) => calls = <<>> /\ store = before)

C13_Witness ==
    /\ Handled
    /\ err = "NoChatIdError"
    /\ args.update.hasCallback
    /\ calls = <<>>
    /\ before # <<>>
    /\ store = before

\* C14: unregistered current state: for a non-command event, when the
\* loaded state is not empty and no handler is registered for it,
\* HandleUpdate returns CurrentStateConfigNotFoundError; the load is the
\* only call made (no TransitionFn, of UndefinedState or of any state, no
\* save, no send) and the stored record is the one that was loaded.
C14_UnregisteredCurrentState ==
    (/\ LoadedOk
     /\ NonCommandShape(args.update)
     /\ calls[1].name \notin configs \cup {""})
    => /\ err = "CurrentStateConfigNotFoundError"
       /\ Len(calls) = 1
       /\ \A j \in Idx : ~IsTransitionFn(j) /\ calls[j].op \notin {"save", "send"}
       /\ store = before
       /\ LoadedChat \in DOMAIN store
       /\ store[LoadedChat].name = calls[1].name
       /\ store[LoadedChat].data = calls[1].data

C14_Witness ==
    /\ LoadedOk
    /\ args.update.hasCallback
    /\ calls[1].name = "ghost"
    /\ calls[1].data = 1
    /\ err = "CurrentStateConfigNotFoundError"
    /\ store[LoadedChat].name = "ghost"

\* C15: unregistered target state: when the Transition names a next state
\* no handler is registered for, HandleUpdate returns
\* NextStateConfigNotFoundError, whether or not the Transition carries a
\* message; the handler's call is the last call made (no MessageFn, no save,
\* no send, no removal), so the payload it returned is not saved and the
\* stored (state, payload) of the conversation is what it was before.
C15_UnregisteredTarget ==
    Handled =>
        \A i \in Idx :
            (IsTransitionFn(i) /\ calls[i].transition.State \notin configs \cup {""})
            => /\ err = "NextStateConfigNotFoundError"
               /\ i = Len(calls)
               /\ \A j \in Idx :
                     calls[j].op \notin {"MessageFn", "undefinedCommandMessageFn",
                                         "save", "send", "delete"}
               /\ store = before
               /\ (LoadedChat \in DOMAIN store =>
                     /\ store[LoadedChat].name = calls[1].name
                     /\ store[LoadedChat].data = calls[1].data)

C15_Witness ==
    /\ LoadedOk
    /\ err = "NextStateConfigNotFoundError"
    /\ calls[1].name = "menu"
    /\ Len(calls) = 2
    /\ calls[2].op = "StateTransitionFn"
    /\ calls[2].transition.State = "ghost"
    /\ calls[2].transition.MessageConfig.Text = "t"
    /\ calls[2].newData # calls[2].data
    /\ store[LoadedChat].data = calls[2].data

\* C16: delivery failure: when the send of a composed message fails,
\* HandleUpdate returns that error and the failed send is its last call (the
\* messages after it are not sent); the record saved for this event, the
\* target state with the new payload, is the stored record (no rollback).
C16_DeliveryFailure ==
    Handled =>
        \A i \in Idx :
            (IsComposed(i) /\ calls[i].failed)
            => /\ err = "SendError"
               /\ i = Len(calls)
               /\ \E k \in 1..(i - 1) :
                     /\ SavedOk(k)
                     /\ calls[k].chat \in DOMAIN store
                     /\ store[calls[k].chat] =
                           ChatState(calls[k].chat, calls[k].name, calls[k].data)
                     /\ \A t \in Idx : IsTransitionFn(t) =>
                           /\ calls[k].data = calls[t].newData
                           /\ (calls[t].transition.State # ""
                                 => calls[k].name = calls[t].transition.State)

C16_Witness ==
    /\ LoadedOk
    /\ err = "SendError"
    /\ calls[1].name = "menu"
    /\ calls[1].data = 0
    /\ calls[Len(calls)].op = "send"
    /\ calls[Len(calls)].failed
    /\ calls[Len(calls)].msg.text = "x1"
    /\ store[LoadedChat] = ChatState(LoadedChat, "form", 1)

\* The MessageConfig a finished call resolved: what the provider it called
\* returned, or else the MessageConfig of the Transition.
ResolvedConfig ==
    IF Has("MessageFn")
    THEN LET i == CHOOSE i \in Idx : calls[i].op = "MessageFn"
         IN  MessageFn(calls[i].state, calls[i].data)
    ELSE IF Has("undefinedCommandMessageFn")
    THEN LET i == CHOOSE i \in Idx : calls[i].op = "undefinedCommandMessageFn"
         IN  undefinedCommandMessageFn(calls[i].data)
    ELSE IF pc = "GoTo" THEN args.transition.MessageConfig
    ELSE LET i == CHOOSE i \in Idx : IsTransitionFn(i)
         IN  calls[i].transition.MessageConfig

ConversationChat == IF pc = "GoTo" THEN args.chatId ELSE getChatId(args.update)

\* C17: message expansion: a MessageConfig with n ExtraTexts goes to the
\* transport as n+1 messages for the conversation's chat id, one after the
\* other and in this order: the first carries Text, the i-th after it
\* carries ExtraTexts[i]; each carries the ParseMode and the ReplyMarkup of
\* the MessageConfig.  A call that a failing send ends has sent a prefix of
\* them.
C17_MessageExpansion ==
    (pc \in {"HandleUpdate", "GoTo"} /\ \E i \in Idx : IsComposed(i)) =>
        LET mc == ResolvedConfig
            first == CHOOSE i \in Idx : FirstComposed(i)
            sent == Len(calls) - first + 1
        IN  /\ sent <= Len(mc.ExtraTexts) + 1
            /\ (err = "nil" => sent = Len(mc.ExtraTexts) + 1)
            /\ \A i \in first..Len(calls) :
                  /\ IsComposed(i)
                  /\ calls[i].msg.text = (IF i = first THEN mc.Text
                                          ELSE mc.ExtraTexts[i - first])
                  /\ calls[i].msg.chat = ConversationChat
                  /\ calls[i].msg.ParseMode = mc.ParseMode
                  /\ calls[i].msg.ReplyMarkup = mc.ReplyMarkup

C17_Witness ==
    /\ Handled
    /\ err = "nil"
    /\ Len(calls) >= 5
    /\ LET n == Len(calls)
       IN  /\ FirstComposed(n - 2)
           /\ calls[n - 2].msg.text = "t"
           /\ calls[n - 1].msg.text = "x1"
           /\ calls[n].msg.text = "x2"
           /\ calls[n].msg.ParseMode = "HTML"
           /\ calls[n].msg.ReplyMarkup = "kb"

\* The state whose handler HandleUpdate resolved for dispatch: the state a
\* state's TransitionFn was called for, UndefinedState for a command event.
DispatchedState ==
    IF Has("StateTransitionFn")
    THEN LET i == CHOOSE i \in Idx : calls[i].op = "StateTransitionFn"
         IN  calls[i].state
    ELSE UndefinedState

\* A call of HandleUpdate that resolved its message: it did not end at the
\* chat id, the load, or the lookup of the current or the next state.
ResolvedMessage ==
    /\ Handled
    /\ err \notin {"NoChatIdError", "LoadStateError",
                   "CurrentStateConfigNotFoundError", "NextStateConfigNotFoundError"}

\* C18: keyboard-removal trigger rule: in HandleUpdate the removal runs if
\* and only if the handler resolved for dispatch before the transition
\* declares RemoveKeyboardAfter, or the resolved MessageConfig has
\* RemoveKeyboard set; what the target state's handler declares does not
\* count.  When it runs it runs once.
C18_RemovalTrigger ==
    ResolvedMessage =>
        /\ (\E i \in Idx : IsPlaceholder(i))
              <=> (RemoveKeyboardAfter(DispatchedState)
                     \/ ResolvedConfig.RemoveKeyboard)
        /\ \A i \in Idx, j \in Idx : (IsPlaceholder(i) /\ IsPlaceholder(j)) => i = j

C18_Witness ==
    /\ LoadedOk
    /\ err = "nil"
    /\ calls[1].name = "menu"
    /\ Len(calls) >= 3
    /\ calls[2].op = "StateTransitionFn"
    /\ calls[2].transition.State = "form"
    /\ calls[2].transition.MessageConfig.Text = "t"
    /\ ~calls[2].transition.MessageConfig.RemoveKeyboard
    /\ IsPlaceholder(3)

\* C19: leaving a keyboard state always removes the keyboard: whenever the
\* state loaded for the conversation is a state whose handler declares
\* RemoveKeyboardAfter and the event is handled to its end, by a state's
\* transition or by a command, the removal placeholder has been sent and
\* then deleted before the first composed message is sent.
C19_LeavingRemovesKeyboard ==
    (LoadedOk /\ err = "nil" /\ RemoveKeyboardAfter(LoadedState)) =>
        \E i \in Idx, j \in Idx :
            /\ i < j
            /\ IsPlaceholder(i)
            /\ calls[j].op = "delete"
            /\ \A k \in Idx : IsComposed(k) => j < k

C21_RemovalShape ==
    (pc \in {"HandleUpdate", "GoTo"}) =>
        /\ \A i \in Idx, j \in Idx :
              (IsPlaceholder(i) /\ IsPlaceholder(j)) => i = j
        /\ \A i \in Idx, j \in Idx :
              (calls[i].op = "delete" /\ calls[j].op = "delete") => i = j
        /\ \A i \in Idx : IsPlaceholder(i) =>
              /\ calls[i].msg.chat = ConversationChat
              /\ calls[i].msg.text = opts.removeKeyboardTempText
              /\ (calls[i].failed => ~Has("delete"))
              /\ (~calls[i].failed =>
                    /\ i + 1 \in Idx
                    /\ calls[i + 1].op = "delete"
                    /\ calls[i + 1].chat = calls[i].msgSent.chat
                    /\ calls[i + 1].messageId = calls[i].msgSent.messageId)
              /\ \A k \in Idx : IsComposed(k) => i + 1 < k
        /\ \A j \in Idx : calls[j].op = "delete" => (j > 1 /\ IsPlaceholder(j - 1))

C21_Witness ==
    /\ Handled
    /\ err = "nil"
    /\ opts.removeKeyboardTempText = DefaultTempText
    /\ \E i \in Idx :
          /\ IsPlaceholder(i)
          /\ calls[i].msg.text = "Thinking..."
          /\ calls[i].msgSent.messageId = 42
          /\ calls[i + 1].op = "delete"
          /\ calls[i + 1].messageId = 42
          /\ IsComposed(i + 3)

\* A removal one of whose two requests failed.
RemovalFailed ==
    \E i \in Idx : /\ IsPlaceholder(i) \/ calls[i].op = "delete"
                   /\ calls[i].failed

\* C22: lenient removal mode: in the revision whose removeKeyboard returns
\* nothing, a failure of the placeholder send or of the delete does not end
\* the call: HandleUpdate goes on to the save, sends the composed messages
\* when the save succeeds, and returns only an error of the save or of a
\* composed send.
C22_LenientRemoval ==
    (Handled /\ revision = "LenientRemoval" /\ RemovalFailed) =>
        /\ Has("save")
        /\ err \in {"nil", "SaveStateFnError", "SendError"}
        /\ ((\E k \in Idx : SavedOk(k)) => \E j \in Idx : IsComposed(j))
        /\ ((\A i \in Idx : (calls[i].op = "save" \/ IsComposed(i))
                                => ~calls[i].failed) => err = "nil")

\* C23: strict removal mode: a failed placeholder send ends HandleUpdate
\* and GoTo with DeleteKeyboardError, which nothing else causes, and no
\* delete is issued; a failed delete is swallowed: the call goes on to the
\* save (HandleUpdate) or to the composed messages (GoTo) and returns what
\* it returns when the delete succeeds: no error unless the save or a
\* composed send fails.
C23_StrictRemoval ==
    (pc \in {"HandleUpdate", "GoTo"} /\ revision = "RemoveKeyboardManager") =>
        /\ \A i \in Idx : (IsPlaceholder(i) /\ calls[i].failed) =>
              /\ err = "DeleteKeyboardError"
              /\ i = Len(calls)
              /\ ~Has("delete")
        /\ (err = "DeleteKeyboardError" =>
              /\ calls # <<>>
              /\ IsPlaceholder(Len(calls))
              /\ calls[Len(calls)].failed)
        /\ \A j \in Idx : (calls[j].op = "delete" /\ calls[j].failed) =>
              /\ j + 1 \in Idx
              /\ (pc = "HandleUpdate" => calls[j + 1].op = "save")
              /\ (pc = "GoTo" => IsComposed(j + 1))
              /\ err \in {"nil", "SaveStateFnError", "SendError"}
              /\ ((\A i \in Idx : (calls[i].op = "save" \/ IsComposed(i))
                                      => ~calls[i].failed)
                    => /\ err = "nil"
                       /\ \E k \in Idx : SavedOk(k)
                       /\ \E k \in Idx : IsComposed(k))

C23_Witness ==
    /\ Handled
    /\ err = "nil"
    /\ \E j \in Idx :
          /\ calls[j].op = "delete"
          /\ calls[j].failed
          /\ SavedOk(j + 1)
          /\ IsComposed(j + 2)

\* C24: GoTo bypasses resolution and keeps persistence before send: GoTo
\* makes no load and calls no TransitionFn of a state or of a command; its
\* one save is of (transition.State, data) for chatId; every send comes
\* after the completed save; the first composed message carries the
\* transition's MessageConfig when that is not empty, and else what the
\* target state's MessageFn gives for data; a successful call has saved
\* and sent.
C24_GoToBypass ==
    (pc = "GoTo") =>
        /\ ~Has("load")
        /\ \A i \in Idx : ~IsTransitionFn(i)
        /\ \A i \in Idx, j \in Idx :
              (calls[i].op = "save" /\ calls[j].op = "save") => i = j
        /\ \A k \in Idx : calls[k].op = "save" =>
              /\ calls[k].chat = args.chatId
              /\ calls[k].name = args.transition.State
              /\ calls[k].data = args.data
        /\ \A i \in Idx : calls[i].op \in {"send", "delete"}
              => \E k \in 1..(i - 1) : SavedOk(k)
        /\ \A j \in Idx : FirstComposed(j) =>
              LET mc == IF args.transition.MessageConfig.Text # ""
                        THEN args.transition.MessageConfig
                        ELSE MessageFn(args.transition.State, args.data)
              IN  calls[j].msg = NewMessage(args.chatId, mc.Text, mc.ParseMode,
                                            mc.ReplyMarkup)
        /\ (err = "nil" =>
              /\ \E j \in Idx : FirstComposed(j)
              /\ args.chatId \in DOMAIN store
              /\ store[args.chatId] =
                    ChatState(args.chatId, args.transition.State, args.data))

C24_Witness ==
    /\ pc = "GoTo"
    /\ err = "nil"
    /\ before # <<>>
    /\ before[args.chatId].name = "menu"
    /\ args.transition.State = "form"
    /\ args.transition.MessageConfig.Text = "t"
    /\ args.data = 1
    /\ Len(calls) = 2
    /\ SavedOk(1)
    /\ calls[2].msg.text = "t"
    /\ store[args.chatId] = ChatState(args.chatId, "form", 1)

\* A call of GoTo that came to its removal step: its save succeeded.
GoToSaved == pc = "GoTo" /\ \E k \in Idx : SavedOk(k)

\* C25 as stated: in GoTo the removal runs if and only if the MessageConfig
\* given in the Transition argument has RemoveKeyboard set; the flag of the
\* target state's default message does not trigger it.
C25_RemovalOnArgumentFlagOnly ==
    GoToSaved =>
        ((\E i \in Idx : IsPlaceholder(i))
            <=> args.transition.MessageConfig.RemoveKeyboard)

\* C25, amended: in GoTo the removal runs if and only if the resolved
\* MessageConfig has RemoveKeyboard set: the one given in the Transition
\* argument when its Text is not empty, and else the target state's default
\* message, whose flag counts as well, while the flag of an argument with
\* an empty Text does not; the RemoveKeyboardAfter of the state the
\* conversation leaves is not consulted.
C25_RemovalOnResolvedFlag ==
    (pc = "GoTo") =>
        /\ (GoToSaved =>
              ((\E i \in Idx : IsPlaceholder(i)) <=> ResolvedConfig.RemoveKeyboard))
        /\ (~GoToSaved => \A i \in Idx : ~IsPlaceholder(i))
        /\ ((/\ GoToSaved
             /\ args.chatId \in DOMAIN before
             /\ RemoveKeyboardAfter(before[args.chatId].name)
             /\ ~ResolvedConfig.RemoveKeyboard)
            => \A i \in Idx : ~IsPlaceholder(i))

C25_Witness ==
    /\ pc = "GoTo"
    /\ err = "nil"
    /\ args.chatId \in DOMAIN before
    /\ before[args.chatId].name = "undefined"
    /\ args.transition.State = "form"
    /\ args.transition.MessageConfig.Text = ""
    /\ ~args.transition.MessageConfig.RemoveKeyboard
    /\ Has("MessageFn")
    /\ \E i \in Idx : IsPlaceholder(i)

\* C26: registration-time validation: NewBotFsm panics, and returns no
\* engine, when the state map has no entry for UndefinedState, and when it
\* has an entry under the empty name, and in no other case; so every engine
\* it returns has UndefinedState registered and no handler for the empty
\* name, as the registry of this model has.
C26_RegistrationValidation ==
    /\ UndefinedState \in configs /\ "" \notin configs
    /\ (pc = "NewBotFsm") =>
          /\ (UndefinedState \notin args.configs => err = "panic")
          /\ ("" \in args.configs => err = "panic")
          /\ (err = "nil" => UndefinedState \in args.configs /\ "" \notin args.configs)
          /\ (err = "panic" => UndefinedState \notin args.configs \/ "" \in args.configs)
          /\ (args.configs = configs => err = "nil")

C26_Witness ==
    /\ pc = "NewBotFsm"
    /\ args.configs = {UndefinedState, "menu", ""}
    /\ err = "panic"

\* C27: persisted-state invariant: from the empty store, after any sequence
\* of calls of HandleUpdate and GoTo, failed ones included, every stored
\* record, and every record a call has saved, names a state that is not
\* empty and is a key of the registry.
C27_PersistedStateRegistered ==
    /\ \A c \in DOMAIN store :
          /\ store[c].name # ""
          /\ store[c].name \in configs
          /\ store[c].chatId = c
    /\ \A k \in Idx : SavedOk(k) => (calls[k].name # "" /\ calls[k].name \in configs)

C27_Witness ==
    /\ Handled
    /\ err = "NextStateConfigNotFoundError"
    /\ LoadedOk
    /\ calls[1].name = "form"
    /\ store = before
    /\ store[LoadedChat].name = "form"

\* A call of HandleUpdate whose load gave the empty state without an error.
LoadedEmptyState == LoadedOk /\ calls[1].name = ""

\* What treating the current state as UndefinedState shows, when the
\* handler that runs gets the payload p: the call does not end for want of
\* a current handler; a non-command event goes to the TransitionFn of
\* UndefinedState; the handler called, of the state or of a command, gets p.
DispatchedToUndefinedWith(p) ==
    /\ err # "CurrentStateConfigNotFoundError"
    /\ \A i \in Idx : calls[i].op = "StateTransitionFn"
                        => calls[i].state = UndefinedState
    /\ (NonCommandShape(args.update) =>
          /\ Len(calls) >= 2
          /\ calls[2].op = "StateTransitionFn")
    /\ \A i \in Idx : IsTransitionFn(i) => calls[i].data = p

\* No record appears but by a completed save for its chat id, and the
\* in-memory store gives the empty state and the zero payload for a chat id
\* it has no record of.
RecordsOnlyBySave ==
    /\ \A c \in DOMAIN store \ DOMAIN before :
          \E k \in Idx : SavedOk(k) /\ calls[k].chat = c
    /\ ((\A k \in Idx : ~SavedOk(k)) => store = before)
    /\ ((LoadedOk /\ LoadedChat \notin DOMAIN before)
          => calls[1].name = "" /\ calls[1].data = ZeroData)

\* C28 as stated: whenever the load gives the empty state without an error,
\* HandleUpdate takes UndefinedState as the current state and hands the
\* zero payload to the handler; no record is created before a save.
C28_EmptyStateZeroPayload ==
    /\ (LoadedEmptyState => DispatchedToUndefinedWith(ZeroData))
    /\ (pc \in {"HandleUpdate", "GoTo"} => RecordsOnlyBySave)

\* C28, amended: whenever the load gives the empty state without an error,
\* HandleUpdate takes UndefinedState as the current state and hands the
\* payload the load returned to the handler; that is the zero payload for a
\* chat id the in-memory store has never seen, and need not be for a record
\* of another persistence handler; no record is created before a save.
C28_EmptyStateLoadedPayload ==
    /\ (LoadedEmptyState => DispatchedToUndefinedWith(calls[1].data))
    /\ ((LoadedEmptyState /\ LoadedChat \notin DOMAIN before)
          => DispatchedToUndefinedWith(ZeroData))
    /\ (pc \in {"HandleUpdate", "GoTo"} => RecordsOnlyBySave)

C28_Witness ==
    /\ LoadedEmptyState
    /\ LoadedChat \in DOMAIN before
    /\ before[LoadedChat].data = 1
    /\ args.update.hasCallback
    /\ calls[2].op = "StateTransitionFn"
    /\ calls[2].state = UndefinedState
    /\ calls[2].data = 1
    /\ err = "nil"
    /\ store[LoadedChat].name = UndefinedState

\* The saves made so far for a chat id, by their places in calls.
SavesOf(chatId) == {k \in Idx : calls[k].op = "save" /\ calls[k].chat = chatId}
LastSaveOf(chatId) ==
    CHOOSE k \in SavesOf(chatId) : \A j \in SavesOf(chatId) : j <= k

\* C29: in-memory store round trip: a load for a chat id returns, without
\* an error, exactly the state and the payload of the last save for that id,
\* whatever saves for other ids came in between or after; a later save for
\* the same id replaces both; a load for an id never saved returns the empty
\* state and the zero payload.
C29_StoreRoundTrip ==
    (pc = "LoadStateFn") =>
        /\ err = "nil"
        /\ IF SavesOf(args.chatId) = {}
           THEN args.result = [name |-> "", data |-> ZeroData]
           ELSE args.result = [name |-> calls[LastSaveOf(args.chatId)].name,
                               data |-> calls[LastSaveOf(args.chatId)].data]

C29_Witness ==
    /\ pc = "LoadStateFn"
    /\ args.chatId = 1
    /\ Len(calls) = 3
    /\ calls[1] = SaveCall(1, "menu", 0, FALSE)
    /\ calls[2] = SaveCall(1, "form", 1, FALSE)
    /\ calls[3] = SaveCall(2, "menu", 0, FALSE)
    /\ args.result = [name |-> "form", data |-> 1]

\* A call of HandleUpdate that starts now hands the handler it dispatches
\* to, of a state or of a command, the payload of the record the earlier
\* calls left for its chat id.
HandlerGetsSavedPayload ==
    (pc = "idle" /\ pc' = "HandleUpdate"
       /\ getChatId(args'.update) \in DOMAIN store)
      => \A i \in DOMAIN calls' :
            calls'[i].op \in {"StateTransitionFn", "CommandTransitionFn"}
              => calls'[i].data = store[getChatId(args'.update)].data

\* What a call saves is the payload its handler returned, and a completed
\* save leaves exactly that payload in the record of its chat id.
SavesHandlerPayload ==
    (pc \in {"HandleUpdate", "GoTo"}) =>
      \A k \in Idx :
        /\ (calls[k].op = "save" =>
              \A i \in Idx : IsTransitionFn(i) => calls[k].data = calls[i].newData)
        /\ (SavedOk(k) => /\ calls[k].chat \in DOMAIN store
                          /\ store[calls[k].chat].data = calls[k].data)

\* C30: payload threading across events: when a call of HandleUpdate or GoTo
\* has saved the payload p for a conversation, the next HandleUpdate for
\* that conversation, no other save for it in between, passes exactly p to
\* the handler it dispatches to; the engine changes the payload neither
\* between the handler's return and the save nor between two calls.
C30_PayloadThreading ==
    /\ []SavesHandlerPayload
    /\ [][pc' = "idle" => store' = store]_vars
    /\ [][HandlerGetsSavedPayload]_vars

C30_Witness ==
    /\ LoadedOk
    /\ LoadedChat \in DOMAIN before
    /\ before[LoadedChat].data = 1
    /\ \E i \in Idx : calls[i].op = "CommandTransitionFn" /\ calls[i].data = 1

\* C31: last write wins under concurrency: with several HandleUpdate calls
\* for the same chat running at once, nothing but the store's own lock
\* orders them, and the record persisted for a chat at any moment is the
\* one the latest save for it wrote (the record is as it was before while
\* no save for it was made); two calls may both load the record as it was before either saved,
\* and the payload change of the first to save is then lost.
C31_LastWriteWins ==
    \A c \in ChatIds :
      IF SavesOf(c) = {}
      THEN /\ (c \in DOMAIN store) <=> (c \in DOMAIN before)
           /\ (c \in DOMAIN store => store[c] = before[c])
      ELSE /\ c \in DOMAIN store
           /\ store[c] = ChatState(c, calls[LastSaveOf(c)].name,
                                   calls[LastSaveOf(c)].data)

C31_Witness ==
    /\ \A g \in Goroutines : goroutines[g].fn = "HandleUpdate"
    /\ before = put(<<>>, 1, ChatState(1, "menu", 0))
    /\ goroutines[1].line = "return" /\ goroutines[2].line = "return"
    /\ goroutines[1].state = "menu" /\ goroutines[1].data = 0
    /\ goroutines[2].state = "menu" /\ goroutines[2].data = 0
    /\ goroutines[1].val = ChatState(1, "menu", 1)
    /\ goroutines[2].val = ChatState(1, "form", 0)
    /\ calls = <<SaveCall(1, "menu", 1, FALSE), SaveCall(1, "form", 0, FALSE)>>
    /\ store[1] = ChatState(1, "form", 0)

\* A goroutine is inside a store operation with the lock taken and not yet
\* released.
Holding(g) == goroutines[g].at \in {"access", "unlock"}
Writing(g) == Holding(g) /\ goroutines[g].op \in {"put", "delete"}

\* C32: store locking: while a put or a delete holds the lock, no other
\* get, put or delete is inside the lock; the lock is held by exactly the
\* operations that are between their acquire and their release, several
\* gets together or one put or delete alone; an operation that has returned
\* holds nothing, so the store is unlocked whenever every operation has
\* returned.
C32_StoreLocking ==
    /\ \A g \in DOMAIN goroutines :
          Writing(g) => \A h \in DOMAIN goroutines \ {g} : ~Holding(h)
    /\ mx.readers = {g \in DOMAIN goroutines :
                        Holding(g) /\ goroutines[g].op = "get"}
    /\ \A g \in DOMAIN goroutines : (mx.writer = g) <=> Writing(g)
    /\ \A g \in DOMAIN goroutines :
          goroutines[g].at = "returned" => g \notin mx.readers /\ mx.writer # g
    /\ ((\A g \in DOMAIN goroutines : goroutines[g].at = "returned")
          => mx = Unlocked)

C32_Witness ==
    /\ goroutines[1].fn = "caller"
    /\ goroutines[1].op = "get" /\ goroutines[1].at = "access"
    /\ goroutines[2].op = "get" /\ goroutines[2].at = "access"
    /\ mx.readers = {1, 2}
    /\ goroutines[1].ops = 2
    /\ store # <<>>

\* The calls of one kind made by the finished call.
CallsOf(ops) == {i \in Idx : calls[i].op \in ops}

\* C33: no automatic retries: one call of HandleUpdate loads at most once,
\* calls at most one TransitionFn and that one once, saves at most once and
\* sends each composed message at most once; a load, a save or a send of a
\* composed message that fails is the last thing the call does.
C33_NoRetries ==
    Handled =>
        /\ Cardinality(CallsOf({"load"})) <= 1
        /\ Cardinality(CallsOf({"StateTransitionFn", "CommandTransitionFn"})) <= 1
        /\ Cardinality(CallsOf({"save"})) <= 1
        /\ ((\E i \in Idx : IsComposed(i)) =>
              Cardinality({i \in Idx : IsComposed(i)})
                 <= Len(ResolvedConfig.ExtraTexts) + 1)
        /\ \A i \in Idx :
              ((calls[i].op \in {"load", "save"} \/ IsComposed(i)) /\ calls[i].failed)
                => i = Len(calls)

C33_Witness ==
    /\ Handled
    /\ err = "SendError"
    /\ Cardinality(CallsOf({"load"})) = 1
    /\ Cardinality(CallsOf({"StateTransitionFn"})) = 1
    /\ Cardinality(CallsOf({"save"})) = 1
    /\ Cardinality({i \in Idx : IsComposed(i)}) = 1
    /\ Len(ResolvedConfig.ExtraTexts) = 2
    /\ IsComposed(Len(calls)) /\ calls[Len(calls)].failed

\* A call that got as far as resolving its message, for a Transition whose
\* MessageConfig has the empty Text: the Transition a handler returned to
\* HandleUpdate, or the one given to GoTo.
EmptyTextResolved ==
    \/ /\ ResolvedMessage
       /\ \E i \in Idx : IsTransitionFn(i)
                            /\ calls[i].transition.MessageConfig.Text = ""
    \/ /\ pc = "GoTo"
       /\ err # "NextStateConfigNotFoundError"
       /\ args.transition.MessageConfig.Text = ""

\* C34: emptiness is decided by the primary text alone: for a Transition
\* whose MessageConfig has the empty Text, whatever its ExtraTexts and its
\* RemoveKeyboard flag, the message is asked of the target state's
\* MessageFn or of the unknown-command provider, every composed message
\* sent has a text, the ParseMode and the ReplyMarkup of that provider's
\* message, and the removal runs only for that message's flag or for the
\* RemoveKeyboardAfter of the handler dispatched to.
C34_EmptinessByText ==
    EmptyTextResolved =>
        /\ Has("MessageFn") \/ Has("undefinedCommandMessageFn")
        /\ \A i \in Idx : IsComposed(i) =>
              /\ calls[i].msg.text \in
                    {ResolvedConfig.Text} \cup
                    {ResolvedConfig.ExtraTexts[k] :
                        k \in DOMAIN ResolvedConfig.ExtraTexts}
              /\ calls[i].msg.ParseMode = ResolvedConfig.ParseMode
              /\ calls[i].msg.ReplyMarkup = ResolvedConfig.ReplyMarkup
        /\ ((\E i \in Idx : IsPlaceholder(i)) =>
              \/ ResolvedConfig.RemoveKeyboard
              \/ Handled /\ RemoveKeyboardAfter(DispatchedState))

C34_Witness ==
    /\ Handled
    /\ err = "nil"
    /\ \E i \in Idx :
          /\ calls[i].op = "StateTransitionFn"
          /\ calls[i].transition =
                [State |-> "", MessageConfig |->
                    MessageConfigOf("", <<"x1">>, "HTML", "kb", TRUE)]
          /\ calls[i].state = UndefinedState
          /\ calls[i].newData = 1
    /\ \A i \in Idx : ~IsPlaceholder(i)
    /\ Cardinality({i \in Idx : IsComposed(i)}) = 1
    /\ calls[Len(calls)].msg.text = MessageFn(UndefinedState, 1).Text

\* C35: a failed removal send and persistence: when the send of the
\* placeholder fails, the call returns DeleteKeyboardError, the failed send
\* is its last call and no composed message is sent; HandleUpdate has then
\* made no save and the stored records are as before the call; GoTo has
\* then already saved, and the stored record is the target state with the
\* data given.
C35_FailedRemovalAndSave ==
    \A i \in Idx :
        (pc \in {"HandleUpdate", "GoTo"} /\ IsPlaceholder(i) /\ calls[i].failed)
        => /\ err = "DeleteKeyboardError"
           /\ i = Len(calls)
           /\ \A j \in Idx : ~IsComposed(j)
           /\ (Handled => ~Has("save") /\ store = before)
           /\ (pc = "GoTo" =>
                 /\ \E k \in 1..(i - 1) : SavedOk(k)
                 /\ args.chatId \in DOMAIN store
                 /\ store[args.chatId] =
                       ChatState(args.chatId, args.transition.State, args.data))

C35_Witness ==
    /\ Handled
    /\ \E i \in Idx : IsPlaceholder(i) /\ calls[i].failed
    /\ \E i \in Idx : /\ calls[i].op = "StateTransitionFn"
                       /\ calls[i].state = "menu"
                       /\ calls[i].transition.State = "form"
                       /\ calls[i].newData = 1
    /\ 1 \in DOMAIN store
    /\ store[1] = ChatState(1, "menu", 0)

\* A call of HandleUpdate for a command no handler is registered for.
UnregisteredCommand ==
    /\ LoadedOk
    /\ extractCommand(args.update) # <<>>
    /\ extractCommand(args.update) \notin commands

\* C36: a command never resets the payload by itself: the handler of a
\* registered command is called with the payload the load returned, which
\* is the payload of the conversation's record; for a command with no
\* handler the payload saved and the payload given to the message provider
\* are that loaded payload.
C36_CommandKeepsPayload ==
    LoadedOk =>
        /\ (LoadedChat \in DOMAIN before
              => calls[1].data = before[LoadedChat].data)
        /\ \A i \in Idx : calls[i].op = "CommandTransitionFn"
              => calls[i].data = calls[1].data
        /\ (UnregisteredCommand =>
              /\ ~Has("CommandTransitionFn") /\ ~Has("StateTransitionFn")
              /\ \A i \in Idx :
                    calls[i].op \in {"save", "MessageFn", "undefinedCommandMessageFn"}
                      => calls[i].data = calls[1].data)

C36_Witness ==
    /\ UnregisteredCommand
    /\ LoadedChat \in DOMAIN before
    /\ before[LoadedChat] = ChatState(LoadedChat, "form", 1)
    /\ err = "nil"
    /\ \E i \in Idx : SavedOk(i) /\ calls[i].data = 1
                       /\ calls[i].name = UndefinedState
    /\ \E i \in Idx : calls[i].op \in {"MessageFn", "undefinedCommandMessageFn"}
                       /\ calls[i].data = 1

\* C37: commands recover a conversation from any persisted state: a call of
\* HandleUpdate for a command never returns CurrentStateConfigNotFoundError,
\* whatever state was loaded, registered or not; for a command with no
\* handler the call finds its target too, whatever it saves is the state
\* Undefined, and when no collaborator fails it has saved, and the record
\* persisted for the conversation is in Undefined.
C37_CommandRecovers ==
    (LoadedOk /\ extractCommand(args.update) # <<>>) =>
        /\ err # "CurrentStateConfigNotFoundError"
        /\ (UnregisteredCommand =>
              /\ err # "NextStateConfigNotFoundError"
              /\ \A k \in Idx : calls[k].op = "save"
                    => calls[k].name = UndefinedState
              /\ ((\A i \in Idx : ~CollaboratorFailed(i)) =>
                    /\ \E k \in Idx : SavedOk(k)
                    /\ LoadedChat \in DOMAIN store
                    /\ store[LoadedChat].name = UndefinedState))

C37_Witness ==
    /\ UnregisteredCommand
    /\ before = put(<<>>, 1, ChatState(1, "ghost", 1))
    /\ calls[1].name = "ghost"
    /\ err = "nil"
    /\ store[1] = ChatState(1, UndefinedState, 1)

\* C38: RemoveKeyboardAfter does not depend on the state changing: when a
\* non-command event is dispatched to the handler of a state that declares
\* RemoveKeyboardAfter and the call resolves its message, the removal runs,
\* once, also when the Transition's next state is empty or is that state.
C38_RemovalOnSelfLoop ==
    ResolvedMessage =>
        \A i \in Idx :
            (calls[i].op = "StateTransitionFn" /\ RemoveKeyboardAfter(calls[i].state))
            => Cardinality({j \in Idx : IsPlaceholder(j)}) = 1

C38_Witness ==
    /\ Handled
    /\ err = "nil"
    /\ \E i \in Idx :
          /\ calls[i].op = "StateTransitionFn"
          /\ calls[i].state = "menu"
          /\ calls[i].transition =
                [State |-> "", MessageConfig |->
                    MessageConfigOf("t", <<>>, "", "nil", FALSE)]
    /\ \E j \in Idx : IsPlaceholder(j) /\ ~calls[j].failed
    /\ \E k \in Idx : SavedOk(k) /\ calls[k].name = "menu"

\* C39: GoTo requires an explicit registered target: a call of GoTo whose
\* Transition names no state, or a state that is not registered, returns
\* NextStateConfigNotFoundError, calls neither the save nor anything else,
\* sends nothing and leaves every stored record as it was; the empty state
\* does not stand for the conversation's current state.
C39_GoToNeedsTarget ==
    (pc = "GoTo" /\ args.transition.State \notin configs) =>
        /\ err = "NextStateConfigNotFoundError"
        /\ calls = <<>>
        /\ store = before

C39_Witness ==
    /\ pc = "GoTo"
    /\ args.transition.State = ""
    /\ args.chatId = 1
    /\ args.data = 1
    /\ err = "NextStateConfigNotFoundError"
    /\ 1 \in DOMAIN store
    /\ store[1] = ChatState(1, "menu", 0)

====
